---- MODULE Spec2Model ----
(***************************************************************************)
(* Model of the node inventory collector, src/python/inventory.py: the     *)
(* probes (lscpu, lsmem, lsblk, smartctl, the DMI identity files), their    *)
(* text parsing, the two thread-pool waves of main and get_disk_info, and   *)
(* the temperature sampling loop.  The earlier script, src/inventory.py,    *)
(* is modelled beside it: the same parsers, run without check=True, and a   *)
(* main that prints the inventory once and has no handler and no loop.      *)
(*                                                                          *)
(* Python values are modelled as follows.  str is a TLA+ string; a list is  *)
(* a sequence; a dict is a function whose domain is its set of keys; an     *)
(* optional value (None or a str) is <<>> or <<s>>; the outcome of a call   *)
(* is [ok |-> TRUE, val |-> v] or [ok |-> FALSE, err |-> exception name].   *)
(* A finished external command is [found, returncode, stdout].              *)
(***************************************************************************)
EXTENDS Integers, Sequences, FiniteSets, TLC

-----------------------------------------------------------------------------
(* Python built-ins used by the parsers. *)

Return(v) == [ok |-> TRUE, val |-> v]
Raise(e) == [ok |-> FALSE, err |-> e]

None == <<>>
Some(s) == <<s>>

Char(s, i) == SubSeq(s, i, i)

Whitespace == {" ", "\t", "\n"}

\* str.startswith(prefix)
startswith(s, prefix) ==
    Len(s) >= Len(prefix) /\ SubSeq(s, 1, Len(prefix)) = prefix

RECURSIVE lstrip(_)
lstrip(s) ==
    IF Len(s) > 0 /\ Char(s, 1) \in Whitespace
    THEN lstrip(SubSeq(s, 2, Len(s)))
    ELSE s

RECURSIVE rstrip(_)
rstrip(s) ==
    IF Len(s) > 0 /\ Char(s, Len(s)) \in Whitespace
    THEN rstrip(SubSeq(s, 1, Len(s) - 1))
    ELSE s

\* str.strip()
strip(s) == rstrip(lstrip(s))

\* Index of the first character of s that lies in the set cs; 0 when none does.
find(s, cs) ==
    IF \E i \in 1..Len(s) : Char(s, i) \in cs
    THEN CHOOSE i \in 1..Len(s) :
            /\ Char(s, i) \in cs
            /\ \A j \in 1..(i - 1) : Char(s, j) \notin cs
    ELSE 0

\* str.split(sep) for a one-character separator: every separator cuts, empty
\* pieces are kept, and a string without the separator is returned whole.
RECURSIVE split(_, _)
split(s, sep) ==
    LET i == find(s, {sep})
    IN  IF i = 0
        THEN <<s>>
        ELSE <<SubSeq(s, 1, i - 1)>> \o split(SubSeq(s, i + 1, Len(s)), sep)

\* str.split() without arguments: cuts at runs of whitespace, no empty pieces.
RECURSIVE split_ws(_)
split_ws(s) ==
    LET t == lstrip(s)
        j == find(t, Whitespace)
    IN  IF t = "" THEN <<>>
        ELSE IF j = 0 THEN <<t>>
        ELSE <<SubSeq(t, 1, j - 1)>> \o split_ws(SubSeq(t, j, Len(t)))

\* "sep".join(list)
RECURSIVE join(_, _)
join(sep, list) ==
    IF list = <<>> THEN ""
    ELSE IF Len(list) = 1 THEN list[1]
    ELSE list[1] \o sep \o join(sep, Tail(list))

DigitChars == "0123456789"

DigitSet == {Char(DigitChars, i) : i \in 1..10}

DigitVal(c) == (CHOOSE i \in 1..10 : Char(DigitChars, i) = c) - 1

\* The text int() accepts: decimal digits, optional sign, blanks around.
isint(s) ==
    LET t == strip(s)
        u == IF Len(t) > 0 /\ Char(t, 1) \in {"-", "+"}
             THEN SubSeq(t, 2, Len(t)) ELSE t
    IN  Len(u) > 0 /\ \A i \in 1..Len(u) : Char(u, i) \in DigitSet

RECURSIVE digits_value(_)
digits_value(u) ==
    IF u = "" THEN 0
    ELSE 10 * digits_value(SubSeq(u, 1, Len(u) - 1)) + DigitVal(Char(u, Len(u)))

\* int(s), for s with isint(s)
int(s) ==
    LET t == strip(s)
    IN  IF Char(t, 1) = "-" THEN 0 - digits_value(SubSeq(t, 2, Len(t)))
        ELSE IF Char(t, 1) = "+" THEN digits_value(SubSeq(t, 2, Len(t)))
        ELSE digits_value(t)

\* f"{i}" for an int i >= 0
RECURSIVE str(_)
str(i) ==
    IF i < 10 THEN Char(DigitChars, i + 1)
    ELSE str(i \div 10) \o Char(DigitChars, (i % 10) + 1)

\* f"{x}" for an optional str: None is rendered as the text None.
format(x) == IF x = None THEN "None" ELSE x[1]

\* d[k] = v on a dict
SetKey(d, k, v) == [x \in DOMAIN d \cup {k} |-> IF x = k THEN v ELSE d[x]]

\* The two scripts of the repository.  src/python/inventory.py passes
\* check=True to every subprocess.run, logs the snapshot and then samples the
\* disk temperatures forever; src/inventory.py passes no check, prints the
\* snapshot with pprint and returns.
New == "python/inventory.py"
Legacy == "inventory.py"

\* subprocess.run(..., capture_output=True, text=True[, check=True]).stdout: a
\* command that cannot be started raises; a non-zero exit status raises only
\* under check=True.
run(cmd, check) ==
    IF ~cmd.found THEN Raise("FileNotFoundError")
    ELSE IF check /\ cmd.returncode # 0 THEN Raise("CalledProcessError")
    ELSE Return(cmd.stdout)

-----------------------------------------------------------------------------
(* The probes: each takes the finished external command (or the file    *)
(* contents) and returns what the Python function returns or raises.    *)

FirstLine(text) == Head(split(text, "\n"))

\* get_model_info: the two DMI identity files; a file that cannot be opened
\* is <<>>, a readable one is <<contents>>.  readline().splitlines()[0]
\* raises IndexError on an empty file.
get_model_info(product_name, product_serial) ==
    IF product_name = <<>> THEN Raise("FileNotFoundError")
    ELSE IF product_name[1] = "" THEN Raise("IndexError")
    ELSE IF product_serial = <<>> THEN Raise("FileNotFoundError")
    ELSE IF product_serial[1] = "" THEN Raise("IndexError")
    ELSE Return([model  |-> strip(FirstLine(product_name[1])),
                 serial |-> strip(FirstLine(product_serial[1]))])

\* The local variable a line of lscpu output assigns, "" when it assigns none.
cpu_label(line) ==
    IF startswith(line, "Thread") THEN "threads"
    ELSE IF startswith(line, "Core") THEN "cores"
    ELSE IF startswith(line, "Socket") THEN "sockets"
    ELSE IF startswith(line, "Model name") THEN "model"
    ELSE ""

\* line.split(":")[1].strip()
label_value(line) ==
    LET parts == split(line, ":")
    IN  IF Len(parts) < 2 THEN Raise("IndexError")
        ELSE Return(strip(parts[2]))

\* The first loop of get_cpu_info over the output lines; loc holds the local
\* variables (None while unbound).  A later line overwrites an earlier one.
RECURSIVE cpu_scan(_, _)
cpu_scan(lines, loc) ==
    IF lines = <<>> THEN Return(loc)
    ELSE LET line == Head(lines)
             key  == cpu_label(line)
             v    == label_value(line)
         IN  IF key = "" THEN cpu_scan(Tail(lines), loc)
             ELSE IF ~v.ok THEN v
             ELSE cpu_scan(Tail(lines), [loc EXCEPT ![key] = Some(v.val)])

cpu_locals == [threads |-> None, cores |-> None, sockets |-> None, model |-> None]

\* The second loop of get_cpu_info: one dict per socket.
cpu_records(loc) ==
    IF loc.sockets = None THEN Raise("UnboundLocalError")
    ELSE IF ~isint(loc.sockets[1]) THEN Raise("ValueError")
    ELSE LET n == int(loc.sockets[1])
         IN  IF n <= 0 THEN Return(<<>>)
             ELSE IF loc.model = None \/ loc.cores = None \/ loc.threads = None
             THEN Raise("UnboundLocalError")
             ELSE Return([i \in 1..n |->
                            [cpu_num |-> str(i - 1),
                             model   |-> loc.model[1],
                             cores   |-> loc.cores[1],
                             threads |-> loc.threads[1]]])

get_cpu_info(lscpu, check) ==
    LET out == run(lscpu, check)
    IN  IF ~out.ok THEN out
        ELSE LET loc == cpu_scan(split(strip(out.val), "\n"), cpu_locals)
             IN  IF ~loc.ok THEN loc ELSE cpu_records(loc.val)

\* The loop of get_mem_info: mem is the local variable.
RECURSIVE mem_scan(_, _)
mem_scan(lines, mem) ==
    IF lines = <<>> THEN Return(mem)
    ELSE LET line == Head(lines)
             v    == label_value(line)
         IN  IF ~startswith(line, "Total online") THEN mem_scan(Tail(lines), mem)
             ELSE IF ~v.ok THEN v
             ELSE mem_scan(Tail(lines), Some(v.val))

get_mem_info(lsmem, check) ==
    LET out == run(lsmem, check)
    IN  IF ~out.ok THEN out
        ELSE LET mem == mem_scan(split(strip(out.val), "\n"), None)
             IN  IF ~mem.ok THEN mem
                 ELSE IF mem.val = None THEN Raise("UnboundLocalError")
                 ELSE Return([memory |-> mem.val[1]])

\* The loop of get_disk_serial.
RECURSIVE serial_scan(_, _)
serial_scan(lines, serial) ==
    IF lines = <<>> THEN Return(serial)
    ELSE LET line == Head(lines)
             v    == label_value(line)
         IN  IF ~startswith(line, "Serial") THEN serial_scan(Tail(lines), serial)
             ELSE IF ~v.ok THEN v
             ELSE serial_scan(Tail(lines), Some(v.val))

\* get_disk_serial(disk): the pair (disk, serial)
get_disk_serial(disk, smartctl, check) ==
    LET out == run(smartctl, check)
    IN  IF ~out.ok THEN out
        ELSE LET serial == serial_scan(split(out.val, "\n"), None)
             IN  IF ~serial.ok THEN serial
                 ELSE Return(<<disk, serial.val>>)

\* A faulty variant: every rotational flag other than "0" counts as rotational.
disk_record_nonzero_rota(item) ==
    LET disk_spec == split_ws(item)
    IN  IF Len(disk_spec) < 1 THEN Raise("IndexError")
        ELSE IF startswith(disk_spec[1], "nvme")
        THEN IF Len(disk_spec) < 3 THEN Raise("IndexError")
             ELSE Return([name |-> disk_spec[1],
                          size |-> disk_spec[3],
                          type |-> "nvme"])
        ELSE IF Len(disk_spec) < 4 THEN Raise("IndexError")
             ELSE Return([name |-> disk_spec[1],
                          path |-> disk_spec[2],
                          size |-> disk_spec[4],
                          type |-> IF disk_spec[3] # "0" THEN "hdd" ELSE "ssd"])

\* The body of the lsblk loop of get_disk_info for one line: the dict built
\* from the positional fields KNAME, HCTL, ROTA, SIZE.
disk_record(item) ==
    LET disk_spec == split_ws(item)
    IN  IF Len(disk_spec) < 1 THEN Raise("IndexError")
        ELSE IF startswith(disk_spec[1], "nvme")
        THEN IF Len(disk_spec) < 3 THEN Raise("IndexError")
             ELSE Return([name |-> disk_spec[1],
                          size |-> disk_spec[3],
                          type |-> "nvme"])
        ELSE IF Len(disk_spec) < 4 THEN Raise("IndexError")
             ELSE Return([name |-> disk_spec[1],
                          path |-> disk_spec[2],
                          size |-> disk_spec[4],
                          type |-> IF disk_spec[3] = "1" THEN "hdd" ELSE "ssd"])

\* The lsblk loop of get_disk_info: disk_info, the list of dicts, in line
\* order (disk_list is the list of their names).
RECURSIVE disk_scan(_)
disk_scan(lines) ==
    IF lines = <<>> THEN Return(<<>>)
    ELSE LET d    == disk_record(Head(lines))
             rest == disk_scan(Tail(lines))
         IN  IF ~d.ok THEN d
             ELSE IF ~rest.ok THEN rest
             ELSE Return(<<d.val>> \o rest.val)

enumerate_disks(lsblk, check) ==
    LET out == run(lsblk, check)
    IN  IF ~out.ok THEN out ELSE disk_scan(split(strip(out.val), "\n"))

\* A faulty variant: the pair's serial is assigned without comparing the names.
merge_serial_unmatched(disk_info, serial) ==
    [i \in 1..Len(disk_info) |-> SetKey(disk_info[i], "serial", serial[2])]

\* The inner loop of the reconciliation: one (name, serial) pair against
\* every dict of disk_info.
merge_serial(disk_info, serial) ==
    [i \in 1..Len(disk_info) |->
        IF serial[1] = disk_info[i].name
        THEN SetKey(disk_info[i], "serial", serial[2])
        ELSE disk_info[i]]

\* The reconciliation loops of get_disk_info over the results of the serial
\* wave, taken in order; the first result that is an exception is raised.
RECURSIVE reconcile(_, _)
reconcile(disk_info, disk_serials) ==
    IF disk_serials = <<>> THEN Return(disk_info)
    ELSE LET r == Head(disk_serials)
         IN  IF ~r.ok THEN r
             ELSE reconcile(merge_serial(disk_info, r.val), Tail(disk_serials))

\* A faulty variant: the raw value of attribute 194 is read one column too early.
temp_of_line_column_9(name, line) ==
    LET tokens == split_ws(line)
    IN  IF startswith(name, "nvme")
        THEN IF ~startswith(line, "Temperature:") THEN Return(None)
             ELSE IF Len(tokens) < 2 THEN Raise("IndexError")
             ELSE Return(Some(strip(tokens[2])))
        ELSE IF ~startswith(line, "194 Temperature") THEN Return(None)
             ELSE IF Len(tokens) < 9 THEN Raise("IndexError")
             ELSE Return(Some(strip(tokens[9])))

\* The token a smartctl -A line yields, or None when it is not the line looked
\* for; the label and the column depend on the device class.
temp_of_line(name, line) ==
    LET tokens == split_ws(line)
    IN  IF startswith(name, "nvme")
        THEN IF ~startswith(line, "Temperature:") THEN Return(None)
             ELSE IF Len(tokens) < 2 THEN Raise("IndexError")
             ELSE Return(Some(strip(tokens[2])))
        ELSE IF ~startswith(line, "194 Temperature") THEN Return(None)
             ELSE IF Len(tokens) < 10 THEN Raise("IndexError")
             ELSE Return(Some(strip(tokens[10])))

RECURSIVE temp_scan(_, _, _)
temp_scan(name, lines, temp) ==
    IF lines = <<>> THEN Return(temp)
    ELSE LET t == temp_of_line(name, Head(lines))
         IN  IF ~t.ok THEN t
             ELSE temp_scan(name, Tail(lines),
                            IF t.val = None THEN temp ELSE t.val)

\* get_disk_temps(disk): the text "<name> <temp>"
get_disk_temps(disk, smartctl) ==
    LET out == run(smartctl, TRUE)
    IN  IF ~out.ok THEN out
        ELSE LET temp == temp_scan(disk.name, split(out.val, "\n"), None)
             IN  IF ~temp.ok THEN temp
                 ELSE Return(disk.name \o " " \o format(temp.val))

\* A faulty variant: the probe keeps the command's exit status in the dict it was handed.
probed_disk_annotated(disk, smartctl) ==
    SetKey(disk, "smart_status", str(smartctl.returncode))

\* get_disk_temps reads disk["name"] and nothing else: the dict it was handed
\* (an element of host_info["disks"], shared with main) is left as it was.
probed_disk(disk, smartctl) == disk

-----------------------------------------------------------------------------
(* The environment: what the external commands and files can answer. *)

MaxDisks == 2

NodeName == "node1"

Cmd(found, returncode, stdout) ==
    [found |-> found, returncode |-> returncode, stdout |-> stdout]

LscpuText ==
    "Architecture: x86_64\nThread(s) per core: 2\nCore(s) per socket: 8\nSocket(s): 2\nModel name: X\n"

LscpuRuns ==
    { Cmd(TRUE, 0, LscpuText),
      Cmd(TRUE, 0, "Architecture: x86_64\n"),
      Cmd(TRUE, 1, "") }

LsmemText ==
    "Memory block size: 128M\nTotal online memory: 64G\nTotal offline memory: 0B\n"

LsmemRuns ==
    { Cmd(TRUE, 0, LsmemText),
      Cmd(TRUE, 0, ""),
      Cmd(TRUE, 1, ""),
      Cmd(TRUE, 1, LsmemText),
      Cmd(FALSE, 0, "") }

\* The contents of product_name and product_serial, None for a missing file.
ModelFiles ==
    { <<Some("PowerEdge R740\n"), Some("SN123\n")>>,
      <<Some("PowerEdge R740\n"), None>> }

\* lsblk --noheadings --list --nodeps --output KNAME,HCTL,ROTA,SIZE: one line
\* per disk, kernel names unique; HCTL is empty for an NVMe device.
LsblkLines ==
    << "sda 1:0:0:0 1 500G", "nvme0n1 0 1T", "sdb 2:0:0:0 0 250G", "sdc 3:0:0:0 1 4T" >>

RECURSIVE lsblk_text(_)
lsblk_text(n) ==
    IF n = 0 THEN "" ELSE lsblk_text(n - 1) \o LsblkLines[n] \o "\n"

LsblkRuns ==
    { Cmd(TRUE, 0, lsblk_text(n)) : n \in 0..MaxDisks } \cup { Cmd(TRUE, 32, "") }

\* smartctl -i /dev/<disk>: .serial is what the device reports.  The exit
\* status of smartctl is a bit mask; it can be non-zero beside a full report.
SmartctlInfoRuns(disk) ==
    { [cmd    |-> Cmd(TRUE, 0, "Device Model: M1\nSerial Number:    SN-" \o disk \o "\n\n"),
       serial |-> Some("SN-" \o disk)],
      [cmd    |-> Cmd(TRUE, 0, "Device Model: M1\n\n"),
       serial |-> None],
      [cmd    |-> Cmd(TRUE, 2, "Smartctl open device: /dev/" \o disk \o " failed\n"),
       serial |-> None],
      [cmd    |-> Cmd(TRUE, 64, "Device Model: M1\nSerial Number:    SN-" \o disk \o "\n\n"),
       serial |-> Some("SN-" \o disk)] }

Temperatures == {"34"}

\* smartctl -A /dev/<disk>: .sensor is the temperature the device reports; the
\* layout of the line is that of the device class.
SmartctlAttrText(disk, t) ==
    IF startswith(disk, "nvme")
    THEN "Critical Warning: 0x00\nTemperature: " \o t \o " Celsius\nAvailable Spare: 100%\n"
    ELSE "ID# ATTRIBUTE_NAME FLAG VALUE WORST THRESH TYPE UPDATED WHEN_FAILED RAW_VALUE\n"
         \o "194 Temperature_Celsius 0x0022 034 045 000 Old_age Always - " \o t \o "\n"

SmartctlAttrRuns(disk) ==
    { [cmd |-> Cmd(TRUE, 0, SmartctlAttrText(disk, t)), sensor |-> Some(t)]
        : t \in Temperatures }
    \cup
    { [cmd |-> Cmd(TRUE, 0, "=== START OF READ SMART DATA SECTION ===\n"), sensor |-> None],
      [cmd |-> Cmd(TRUE, 4, ""), sensor |-> None] }

\* Whether the command's execution failed: it could not be started, or it
\* exited with a non-zero status.
ExecutionFailed(cmd) == ~cmd.found \/ cmd.returncode # 0

-----------------------------------------------------------------------------
(* The state. *)

VARIABLES
    script,          \* which of the two scripts runs
    pc,              \* position of main
    host_info,       \* main's dict
    futures,         \* the four futures of main's executor
    disk_pc,         \* position of get_disk_info in its worker thread
    disk_info,       \* get_disk_info's list of dicts
    serial_futures,  \* the futures of get_disk_info's executor.map
    serial_writes,   \* how often disk_info[i]["serial"] was assigned
    temp_futures,    \* the futures of the sampling cycle's executor.map
    completion,      \* the order in which the cycle's probes finished
    snapshot,        \* the host_info handed to logger.info / pprint, if any
    errors,          \* the exception handed to logger.error, if any
    printed,         \* the last line handed to print(), if any
    prints,          \* print() calls in the current cycle
    given,           \* parser checks: the input and what it was built from
    got              \* parser checks: the outcome

vars == << script, pc, host_info, futures, disk_pc, disk_info, serial_futures,
           serial_writes, temp_futures, completion, snapshot, errors, printed,
           prints, given, got >>

sys_vars == << script, pc, host_info, futures, disk_pc, disk_info, serial_futures,
               serial_writes, temp_futures, completion, snapshot, errors, printed,
               prints >>

Facets == {"cpus", "mem", "model", "disks"}

NoResult == Raise("not finished")

\* A submitted task that no worker has taken yet.
Pending == [state |-> "pending", result |-> NoResult, env |-> <<>>]

Finished(fut, result, env) ==
    [fut EXCEPT !.state = "done", !.result = result, !.env = env]

EmptyDict == [k \in {} |-> ""]

\* A faulty variant: the executor is shut down without waiting (shutdown(wait=False)).
executor_no_wait(states) == TRUE

\* Leaving a "with ThreadPoolExecutor() as executor" block: shutdown(wait=True)
\* returns once no submitted task is pending or running.
executor_shutdown(states) == states \subseteq {"done", "cancelled"}

States(futs) == {futs[k].state : k \in DOMAIN futs}

Check == script = New

SysInit ==
    /\ script \in {New, Legacy}
    /\ pc = IF script = New THEN "connect" ELSE "wave"
    /\ host_info = IF script = New THEN SetKey(EmptyDict, "host", NodeName) ELSE EmptyDict
    /\ futures = [f \in Facets |-> Pending]
    /\ disk_pc = "lsblk"
    /\ disk_info = <<>>
    /\ serial_futures = <<>>
    /\ serial_writes = <<>>
    /\ temp_futures = <<>>
    /\ completion = <<>>
    /\ snapshot = None
    /\ errors = None
    /\ printed = None
    /\ prints = 0

Init == SysInit /\ given = <<>> /\ got = <<>>

-----------------------------------------------------------------------------
(* main, up to the snapshot. *)

\* redis.Redis(...).setnx(host, "connected"): the server answers or the call
\* raises, which main's except clause logs.
Connect ==
    /\ pc = "connect"
    /\ \E reachable \in BOOLEAN :
          IF reachable
          THEN pc' = "wave" /\ errors' = errors
          ELSE pc' = "returned" /\ errors' = Some("ConnectionError")
    /\ UNCHANGED << script, host_info, futures, disk_pc, disk_info, serial_futures,
                    serial_writes, temp_futures, completion, snapshot, printed,
                    prints, given, got >>

\* A worker thread of main's executor takes one of the four submitted tasks.
Start(f) ==
    /\ pc = "wave"
    /\ futures[f].state = "pending"
    /\ futures' = [futures EXCEPT ![f].state = "running"]
    /\ UNCHANGED << script, pc, host_info, disk_pc, disk_info, serial_futures,
                    serial_writes, temp_futures, completion, snapshot, errors,
                    printed, prints, given, got >>

CpuProbe ==
    /\ futures["cpus"].state = "running"
    /\ \E lscpu \in LscpuRuns :
          futures' = [futures EXCEPT
                        !["cpus"] = Finished(@, get_cpu_info(lscpu, Check), lscpu)]
    /\ UNCHANGED << script, pc, host_info, disk_pc, disk_info, serial_futures,
                    serial_writes, temp_futures, completion, snapshot, errors,
                    printed, prints, given, got >>

MemProbe ==
    /\ futures["mem"].state = "running"
    /\ \E lsmem \in LsmemRuns :
          futures' = [futures EXCEPT
                        !["mem"] = Finished(@, get_mem_info(lsmem, Check), lsmem)]
    /\ UNCHANGED << script, pc, host_info, disk_pc, disk_info, serial_futures,
                    serial_writes, temp_futures, completion, snapshot, errors,
                    printed, prints, given, got >>

ModelProbe ==
    /\ futures["model"].state = "running"
    /\ \E files \in ModelFiles :
          futures' = [futures EXCEPT
                        !["model"] = Finished(@, get_model_info(files[1], files[2]), files)]
    /\ UNCHANGED << script, pc, host_info, disk_pc, disk_info, serial_futures,
                    serial_writes, temp_futures, completion, snapshot, errors,
                    printed, prints, given, got >>

\* get_disk_info up to executor.map: lsblk, the dicts, and the serial wave
\* submitted, one task per name of disk_list.  An exception ends the task.
DiskEnumerate ==
    /\ futures["disks"].state = "running"
    /\ disk_pc = "lsblk"
    /\ \E lsblk \in LsblkRuns :
          LET r == enumerate_disks(lsblk, Check)
          IN  IF r.ok
              THEN /\ disk_info' = r.val
                   /\ serial_futures' = [i \in 1..Len(r.val) |-> Pending]
                   /\ serial_writes' = [i \in 1..Len(r.val) |-> 0]
                   /\ disk_pc' = "serials"
                   /\ futures' = [futures EXCEPT !["disks"].env = lsblk]
              ELSE /\ futures' = [futures EXCEPT !["disks"] = Finished(@, r, lsblk)]
                   /\ disk_pc' = "returned"
                   /\ UNCHANGED << disk_info, serial_futures, serial_writes >>
    /\ UNCHANGED << script, pc, host_info, temp_futures, completion, snapshot,
                    errors, printed, prints, given, got >>

SerialStart(i) ==
    /\ disk_pc = "serials"
    /\ i \in DOMAIN serial_futures
    /\ serial_futures[i].state = "pending"
    /\ serial_futures' = [serial_futures EXCEPT ![i].state = "running"]
    /\ UNCHANGED << script, pc, host_info, futures, disk_pc, disk_info,
                    serial_writes, temp_futures, completion, snapshot, errors,
                    printed, prints, given, got >>

SerialProbe(i) ==
    /\ i \in DOMAIN serial_futures
    /\ serial_futures[i].state = "running"
    /\ \E run_ \in SmartctlInfoRuns(disk_info[i].name) :
          serial_futures' = [serial_futures EXCEPT
              ![i] = Finished(@, get_disk_serial(disk_info[i].name, run_.cmd, Check), run_)]
    /\ UNCHANGED << script, pc, host_info, futures, disk_pc, disk_info,
                    serial_writes, temp_futures, completion, snapshot, errors,
                    printed, prints, given, got >>

Results(futs) == [k \in DOMAIN futs |-> futs[k].result]

\* The (name, serial) pairs the reconciliation loop gets to see: those before
\* the first result that raises.
RECURSIVE pairs_seen(_)
pairs_seen(results) ==
    IF results = <<>> \/ ~Head(results).ok THEN <<>>
    ELSE <<Head(results).val>> \o pairs_seen(Tail(results))

\* How often the reconciliation assigns disk_info[i]["serial"].
serial_assignments(disks, results) ==
    [i \in 1..Len(disks) |->
        Cardinality({k \in 1..Len(pairs_seen(results)) :
                        pairs_seen(results)[k][1] = disks[i].name})]

\* get_disk_info after the with block: the reconciliation loops and the
\* return, or the exception of the first serial probe that raised.
DiskReconcile ==
    /\ disk_pc = "serials"
    /\ executor_shutdown(States(serial_futures))
    /\ LET r == reconcile(disk_info, Results(serial_futures))
       IN  /\ futures' = [futures EXCEPT !["disks"] = Finished(@, r, @.env)]
           /\ disk_info' = IF r.ok THEN r.val ELSE disk_info
    /\ serial_writes' = serial_assignments(disk_info, Results(serial_futures))
    /\ disk_pc' = "returned"
    /\ UNCHANGED << script, pc, host_info, serial_futures, temp_futures,
                    completion, snapshot, errors, printed, prints, given, got >>

\* dict.update(other)
update(d, other) ==
    [k \in DOMAIN d \cup DOMAIN other |-> IF k \in DOMAIN other THEN other[k] ELSE d[k]]

\* main's four result() calls in their order: disks, cpus, mem, model.  The
\* first future that holds an exception raises it and the later keys are
\* never set.
merge_results(hi, futs) ==
    LET d == futs["disks"].result
        c == futs["cpus"].result
        m == futs["mem"].result
        p == futs["model"].result
        h1 == SetKey(hi, "disks", d.val)
        h2 == SetKey(h1, "cpus", c.val)
        h3 == update(h2, m.val)
        h4 == update(h3, p.val)
    IN  IF ~d.ok THEN [host_info |-> hi, err |-> Some(d.err)]
        ELSE IF ~c.ok THEN [host_info |-> h1, err |-> Some(c.err)]
        ELSE IF ~m.ok THEN [host_info |-> h2, err |-> Some(m.err)]
        ELSE IF ~p.ok THEN [host_info |-> h3, err |-> Some(p.err)]
        ELSE [host_info |-> h4, err |-> None]

\* main from the end of its with block to the snapshot: the results are
\* merged and host_info is logged (New) or pretty-printed (Legacy).  An
\* exception is logged by the except clause of New's main, which then
\* returns; Legacy's main has no handler and the process ends with it.
Assemble ==
    /\ pc = "wave"
    /\ executor_shutdown(States(futures))
    /\ LET start == IF script = Legacy THEN SetKey(host_info, "host", NodeName)
                    ELSE host_info
           r == merge_results(start, futures)
       IN  /\ host_info' = r.host_info
           /\ IF r.err = None
              THEN /\ snapshot' = Some(r.host_info)
                   /\ errors' = errors
                   /\ pc' = IF script = New THEN "assembled" ELSE "returned"
              ELSE /\ snapshot' = snapshot
                   /\ errors' = IF script = New THEN r.err ELSE errors
                   /\ pc' = IF script = New THEN "returned" ELSE "crashed"
    /\ UNCHANGED << script, futures, disk_pc, disk_info, serial_futures,
                    serial_writes, temp_futures, completion, printed, prints,
                    given, got >>

-----------------------------------------------------------------------------
(* The temperature sampling loop of New's main. *)

\* The top of "while True": a new executor, and executor.map submits one
\* get_disk_temps task per dict of host_info["disks"].  It is reached from
\* the snapshot and again when time.sleep(5) returns.
StartCycle ==
    /\ pc \in {"assembled", "idle"}
    /\ temp_futures' = [i \in 1..Len(host_info["disks"]) |-> Pending]
    /\ completion' = <<>>
    /\ prints' = 0
    /\ pc' = "sampling"
    /\ UNCHANGED << script, host_info, futures, disk_pc, disk_info, serial_futures,
                    serial_writes, snapshot, errors, printed, given, got >>

TempStart(i) ==
    /\ i \in DOMAIN temp_futures
    /\ temp_futures[i].state = "pending"
    /\ temp_futures' = [temp_futures EXCEPT ![i].state = "running"]
    /\ UNCHANGED << script, pc, host_info, futures, disk_pc, disk_info,
                    serial_futures, serial_writes, completion, snapshot, errors,
                    printed, prints, given, got >>

\* One get_disk_temps call; it runs on the dict of host_info["disks"] itself.
TempProbe(i) ==
    /\ i \in DOMAIN temp_futures
    /\ temp_futures[i].state = "running"
    /\ \E run_ \in SmartctlAttrRuns(host_info["disks"][i].name) :
          /\ temp_futures' = [temp_futures EXCEPT
                ![i] = Finished(@, get_disk_temps(host_info["disks"][i], run_.cmd), run_)]
          /\ host_info' = [host_info EXCEPT
                !["disks"][i] = probed_disk(@, run_.cmd)]
    /\ completion' = Append(completion, i)
    /\ UNCHANGED << script, pc, futures, disk_pc, disk_info, serial_futures,
                    serial_writes, snapshot, errors, printed, prints, given, got >>

\* list(temp_futures) has every result: all tasks are done and none raised.
results_ready(futs) ==
    \A i \in DOMAIN futs : futs[i].state = "done" /\ futs[i].result.ok

\* The index of the first task, in submission order, whose result raises
\* with every earlier task done; 0 when there is none (yet).
first_raised(futs) ==
    IF \E k \in DOMAIN futs :
          /\ futs[k].state = "done" /\ ~futs[k].result.ok
          /\ \A j \in 1..(k - 1) : futs[j].state = "done" /\ futs[j].result.ok
    THEN CHOOSE k \in DOMAIN futs :
          /\ futs[k].state = "done" /\ ~futs[k].result.ok
          /\ \A j \in 1..(k - 1) : futs[j].state = "done" /\ futs[j].result.ok
    ELSE 0

\* A faulty variant: the line is printed as soon as the first probe has returned, from
\* the results there are.
Publish_unjoined ==
    /\ pc = "sampling"
    /\ temp_futures[1].state = "done" /\ temp_futures[1].result.ok
    /\ LET have == {i \in DOMAIN temp_futures :
                      temp_futures[i].state = "done" /\ temp_futures[i].result.ok}
           temp_list == [i \in 1..Cardinality(have) |->
                           temp_futures[CHOOSE k \in have :
                               Cardinality({j \in have : j < k}) = i - 1].result.val]
       IN  printed' = Some(join("|", temp_list))
    /\ prints' = prints + 1
    /\ pc' = "idle"
    /\ UNCHANGED << script, host_info, futures, disk_pc, disk_info, serial_futures,
                    serial_writes, temp_futures, completion, snapshot, errors,
                    given, got >>

\* temp_list = list(temp_futures); print("|".join(temp_list)); time.sleep(5)
Publish ==
    /\ pc = "sampling"
    /\ results_ready(temp_futures)
    /\ LET temp_list == [i \in DOMAIN temp_futures |-> temp_futures[i].result.val]
       IN  printed' = Some(join("|", temp_list))
    /\ prints' = prints + 1
    /\ pc' = "idle"
    /\ UNCHANGED << script, host_info, futures, disk_pc, disk_info, serial_futures,
                    serial_writes, temp_futures, completion, snapshot, errors,
                    given, got >>

\* list(temp_futures) reaches a result that raises: the iterator cancels the
\* tasks no worker has taken and the exception leaves the with block, whose
\* exit waits for the running tasks.
TempRaise ==
    /\ pc = "sampling"
    /\ first_raised(temp_futures) # 0
    /\ temp_futures' = [i \in DOMAIN temp_futures |->
                          IF temp_futures[i].state = "pending"
                          THEN [temp_futures[i] EXCEPT !.state = "cancelled"]
                          ELSE temp_futures[i]]
    /\ pc' = "unwinding"
    /\ UNCHANGED << script, host_info, futures, disk_pc, disk_info, serial_futures,
                    serial_writes, completion, snapshot, errors, printed, prints,
                    given, got >>

\* The exception reaches main's except clause: it is logged and main returns.
Unwind ==
    /\ pc = "unwinding"
    /\ executor_shutdown(States(temp_futures))
    /\ errors' = Some(temp_futures[first_raised(temp_futures)].result.err)
    /\ pc' = "returned"
    /\ UNCHANGED << script, host_info, futures, disk_pc, disk_info, serial_futures,
                    serial_writes, temp_futures, completion, snapshot, printed,
                    prints, given, got >>

Next ==
    \/ Connect
    \/ \E f \in Facets : Start(f)
    \/ CpuProbe
    \/ MemProbe
    \/ ModelProbe
    \/ DiskEnumerate
    \/ \E i \in 1..(MaxDisks + 1) : SerialStart(i)
    \/ \E i \in 1..(MaxDisks + 1) : SerialProbe(i)
    \/ DiskReconcile
    \/ Assemble
    \/ StartCycle
    \/ \E i \in 1..(MaxDisks + 1) : TempStart(i)
    \/ \E i \in 1..(MaxDisks + 1) : TempProbe(i)
    \/ Publish
    \/ TempRaise
    \/ Unwind

Spec == Init /\ [][Next]_vars

-----------------------------------------------------------------------------
(* The parsers on their own: an input is put together piece by piece (given  *)
(* records the text and, beside it, the facts the text states), then the     *)
(* parser is applied to it.  The collector itself stands still meanwhile.    *)

Off ==
    /\ script = New
    /\ pc = "off"
    /\ host_info = EmptyDict
    /\ futures = [f \in Facets |-> Pending]
    /\ disk_pc = "lsblk"
    /\ disk_info = <<>>
    /\ serial_futures = <<>>
    /\ serial_writes = <<>>
    /\ temp_futures = <<>>
    /\ completion = <<>>
    /\ snapshot = None
    /\ errors = None
    /\ printed = None
    /\ prints = 0

text_of(lines) == join("\n", lines) \o "\n"

(* lscpu *)

MaxCpuLines == 5

CpuLabels ==
    [threads |-> "Thread(s) per core", cores |-> "Core(s) per socket",
     sockets |-> "Socket(s)", model |-> "Model name"]

CpuValues ==
    [threads |-> {"1", "2"}, cores |-> {"4", "8"},
     sockets |-> {"1", "2"}, model |-> {"X", "EPYC 7B12 rev: B1"}]

\* The socket counts and the cpu_num texts, written out.
SocketCount == [t \in {"1", "2"} |-> IF t = "1" THEN 1 ELSE 2]

CpuNumText == <<"0", "1", "2">>

CpuInit ==
    /\ Off
    /\ given = [lines |-> <<>>, facts |-> cpu_locals]
    /\ got = <<>>

\* lscpu prints one of the four lines the parser looks for, "label:   value".
CpuFactLine ==
    /\ got = <<>>
    /\ Len(given.lines) < MaxCpuLines
    /\ \E key \in DOMAIN CpuLabels : \E v \in CpuValues[key] :
          given' = [lines |-> Append(given.lines, CpuLabels[key] \o ":   " \o v),
                    facts |-> [given.facts EXCEPT ![key] = Some(v)]]
    /\ UNCHANGED << sys_vars, got >>

\* lscpu prints a line about something else.
CpuOtherLine ==
    /\ got = <<>>
    /\ Len(given.lines) < MaxCpuLines
    /\ given' = [given EXCEPT !.lines = Append(@, "CPU(s):   16")]
    /\ UNCHANGED << sys_vars, got >>

CpuParse ==
    /\ got = <<>>
    /\ got' = <<get_cpu_info(Cmd(TRUE, 0, text_of(given.lines)), TRUE)>>
    /\ UNCHANGED << sys_vars, given >>

CpuNext == CpuFactLine \/ CpuOtherLine \/ CpuParse

SpecCpu == CpuInit /\ [][CpuNext]_vars

(* lsblk *)

MaxLsblkLines == 2

\* The fields of one lsblk line: KNAME, HCTL (empty, hence no token, for a
\* device without a SCSI address), ROTA, SIZE.
LsblkFields ==
    { <<n, r, "500G">> : n \in {"sda", "nvme0n1"}, r \in {"0", "1", "10"} }
    \cup
    { <<n, "1:0:0:0", r, "500G">> : n \in {"sda", "nvme0n1"}, r \in {"0", "1", "10"} }

NvmeNames == {"nvme0n1"}

LsblkInit ==
    /\ Off
    /\ given = [lines |-> <<>>, fields |-> <<>>]
    /\ got = <<>>

\* lsblk prints one line: the fields in columns, padded with blanks.
LsblkLine ==
    /\ got = <<>>
    /\ Len(given.lines) < MaxLsblkLines
    /\ \E f \in LsblkFields : \E pad \in {" ", "   "} :
          given' = [lines  |-> Append(given.lines, join(pad, f)),
                    fields |-> Append(given.fields, f)]
    /\ UNCHANGED << sys_vars, got >>

LsblkParse ==
    /\ got = <<>>
    /\ got' = <<enumerate_disks(Cmd(TRUE, 0, text_of(given.lines)), TRUE)>>
    /\ UNCHANGED << sys_vars, given >>

LsblkNext == LsblkLine \/ LsblkParse

SpecLsblk == LsblkInit /\ [][LsblkNext]_vars

(* The reconciliation *)

\* The enumerations: up to MaxDisks lines of lsblk output, names unique.
Enumerations ==
    { s \in UNION { [1..n -> 1..Len(LsblkLines)] : n \in 0..MaxDisks } :
        \A i, j \in DOMAIN s : i # j => s[i] # s[j] }

RecInit ==
    /\ Off
    /\ \E s \in Enumerations :
          given = [E |-> disk_scan([i \in DOMAIN s |-> LsblkLines[s[i]]]).val,
                   P |-> <<>>]
    /\ got = <<>>

\* A serial probe delivers its (name, serial) pair: at most one pair per
\* name, for an enumerated disk or for a name the enumeration does not have.
PairArrives ==
    /\ got = <<>>
    /\ \E name \in {given.E[i].name : i \in DOMAIN given.E} \cup {"sdz"} :
          /\ \A k \in DOMAIN given.P : given.P[k][1] # name
          /\ \E serial \in {None, Some("SN-" \o name), Some("S0")} :
                given' = [given EXCEPT !.P = Append(@, <<name, serial>>)]
    /\ UNCHANGED << sys_vars, got >>

\* The reconciliation loops run over the pairs; a second run takes the
\* records the first one returned.
Reconcile ==
    /\ Len(got) < 2
    /\ LET pairs == [k \in DOMAIN given.P |-> Return(given.P[k])]
           start == IF got = <<>> THEN given.E ELSE got[1].val
       IN  got' = Append(got, reconcile(start, pairs))
    /\ UNCHANGED << sys_vars, given >>

RecNext == PairArrives \/ Reconcile

SpecRec == RecInit /\ [][RecNext]_vars

-----------------------------------------------------------------------------
(* The sampling loop on its own, from the states in which New's main has     *)
(* just logged a snapshot of n disks.                                        *)

\* The futures and the snapshot of a run in which every command succeeded,
\* lsblk listed n disks and every disk reported its serial number.
AssembledRun(n) ==
    LET lsblk   == Cmd(TRUE, 0, lsblk_text(n))
        found   == enumerate_disks(lsblk, TRUE).val
        answer  == [i \in 1..n |->
                      CHOOSE a \in SmartctlInfoRuns(found[i].name) :
                          ~ExecutionFailed(a.cmd) /\ a.serial # None]
        serials == [i \in 1..n |->
                      Finished(Pending,
                               get_disk_serial(found[i].name, answer[i].cmd, TRUE),
                               answer[i])]
        lscpu   == Cmd(TRUE, 0, LscpuText)
        lsmem   == Cmd(TRUE, 0, LsmemText)
        files   == <<Some("PowerEdge R740\n"), Some("SN123\n")>>
        futs    == [f \in Facets |->
                      IF f = "cpus" THEN Finished(Pending, get_cpu_info(lscpu, TRUE), lscpu)
                      ELSE IF f = "mem" THEN Finished(Pending, get_mem_info(lsmem, TRUE), lsmem)
                      ELSE IF f = "model"
                      THEN Finished(Pending, get_model_info(files[1], files[2]), files)
                      ELSE Finished(Pending, reconcile(found, Results(serials)), lsblk)]
    IN  [futures        |-> futs,
         serial_futures |-> serials,
         disk_info      |-> futs["disks"].result.val,
         host_info      |-> merge_results(SetKey(EmptyDict, "host", NodeName), futs).host_info]

LoopInit ==
    /\ script = New
    /\ pc = "assembled"
    /\ \E n \in 1..MaxDisks :
          LET a == AssembledRun(n)
          IN  /\ host_info = a.host_info
              /\ futures = a.futures
              /\ disk_info = a.disk_info
              /\ serial_futures = a.serial_futures
              /\ serial_writes = [i \in 1..n |-> 1]
              /\ snapshot = Some(a.host_info)
    /\ disk_pc = "returned"
    /\ temp_futures = <<>>
    /\ completion = <<>>
    /\ errors = None
    /\ printed = None
    /\ prints = 0
    /\ given = <<>>
    /\ got = <<>>

\* A step of the sampling loop that carries it on: one of main's, or one of
\* a worker thread.
CycleStep ==
    \/ StartCycle
    \/ \E i \in 1..(MaxDisks + 1) : TempStart(i)
    \/ \E i \in 1..(MaxDisks + 1) : TempProbe(i)
    \/ Publish

LoopNext == CycleStep \/ TempRaise \/ Unwind

\* The loop does not stand still: the worker threads of a cycle are
\* scheduled, smartctl returns, and time.sleep(5) returns.
SpecLoop == LoopInit /\ [][LoopNext]_vars /\ WF_vars(CycleStep)

-----------------------------------------------------------------------------
(* The claims. *)

Done(fut) == fut.state = "done"
Succeeded(fut) == fut.state = "done" /\ fut.result.ok
Raised(fut) == fut.state = "done" /\ ~fut.result.ok

Absent(record, key) == key \notin DOMAIN record \/ record[key] = None

\* The text of n entries joined by '|'.
RECURSIVE Joined(_, _)
Joined(entry, n) ==
    IF n = 1 THEN entry[1] ELSE Joined(entry, n - 1) \o "|" \o entry[n]

\* The line of a cycle as the devices' answers dictate it: one entry per disk
\* of the snapshot, in the snapshot's order, a missing reading written as
\* the text absent.
CycleLine(absent) ==
    LET disks == snapshot[1]["disks"]
        entry == [i \in DOMAIN disks |->
                    disks[i].name \o " " \o
                    (IF temp_futures[i].env.sensor = None THEN absent
                     ELSE temp_futures[i].env.sensor[1])]
    IN  Joined(entry, Len(disks))

\* Every probe of the cycle is done, the command of exactly one failed and
\* that probe raised, and the others returned.
OneTempProbeFailed ==
    /\ temp_futures # <<>>
    /\ \E i \in DOMAIN temp_futures :
          /\ Raised(temp_futures[i])
          /\ ExecutionFailed(temp_futures[i].env.cmd)
          /\ \A j \in DOMAIN temp_futures \ {i} : Succeeded(temp_futures[j])

\* C1: a sampling cycle in which exactly one disk's get_disk_temps raises a
\* command-execution error still publishes its line, with all N entries and
\* the failing disk's temperature absent, and the loop goes on: main is in
\* the cycle or asleep after it, never on its way out.
C1_CycleSurvivesOneFailedProbe ==
    OneTempProbeFailed =>
        /\ pc \in {"sampling", "idle"}
        /\ pc = "idle" => printed = Some(CycleLine(""))

\* What the code does in that case: nothing is printed for the cycle and
\* main logs the exception and returns.
CycleEndsOnFailedProbe ==
    /\ OneTempProbeFailed => pc # "idle"
    /\ OneTempProbeFailed /\ pc = "returned" => errors = Some("CalledProcessError")

FacetsSucceeded(fs) == \A f \in fs : Succeeded(futures[f])

MemoryCommandFailed ==
    Done(futures["mem"]) /\ ExecutionFailed(futures["mem"].env)

NothingPublished ==
    /\ snapshot = None
    /\ printed = None
    /\ temp_futures = <<>>
    /\ pc \notin {"assembled", "sampling", "idle", "unwinding"}

\* C2: when the memory probe's command execution fails while the CPU, model
\* and disk probes succeed, no snapshot is published or printed and no
\* sampling cycle is started.
C2_MemoryFailureFailsAssembly ==
    MemoryCommandFailed /\ FacetsSucceeded({"cpus", "model", "disks"})
        => NothingPublished

\* What holds: New (check=True) fails as a whole on every failed lsmem run,
\* Legacy only when the failed run left no "Total online" line to parse.
MemoryFailureWhereDetected ==
    /\ MemoryCommandFailed
    /\ script = New \/ ~futures["mem"].result.ok
    => NothingPublished

SerialCommandFailed(i) ==
    Done(serial_futures[i]) /\ ExecutionFailed(serial_futures[i].env.cmd)

\* C3: when the serial probe of one disk fails, get_disk_info still returns
\* one record per enumerated disk, the failing disk's serial absent and every
\* other disk with the serial its own probe returned.
C3_SerialFailureIsNotFatal ==
    /\ disk_pc = "returned"
    /\ serial_futures # <<>>
    /\ \E i \in DOMAIN serial_futures :
          /\ SerialCommandFailed(i)
          /\ \A j \in DOMAIN serial_futures \ {i} : ~SerialCommandFailed(j)
    => LET r == futures["disks"].result
       IN  /\ r.ok
           /\ Len(r.val) = Len(serial_futures)
           /\ \A k \in DOMAIN serial_futures :
                 IF SerialCommandFailed(k)
                 THEN Absent(r.val[k], "serial")
                 ELSE /\ "serial" \in DOMAIN r.val[k]
                      /\ r.val[k]["serial"] = serial_futures[k].env.serial

\* What the code does: in New the failed command makes get_disk_info raise;
\* a probe that only finds no Serial line leaves the disk without serial.
SerialFailureRaises ==
    /\ disk_pc = "returned" /\ serial_futures # <<>> /\ script = New
       /\ (\E i \in DOMAIN serial_futures : SerialCommandFailed(i))
       => futures["disks"].result = Raise("CalledProcessError")
    /\ disk_pc = "returned" /\ serial_futures # <<>>
       /\ (\A i \in DOMAIN serial_futures : ~SerialCommandFailed(i))
       => /\ futures["disks"].result.ok
          /\ \A k \in DOMAIN serial_futures :
                futures["disks"].result.val[k]["serial"] = serial_futures[k].env.serial

LongEnough(f) == IF f[1] \in NvmeNames THEN Len(f) >= 3 ELSE Len(f) >= 4

\* C4: every lsblk line yields a record by its positional fields: a name
\* starting with "nvme" gives type nvme and no path whatever the other
\* fields are; any other name gives type hdd exactly when the third field is
\* "1" and ssd otherwise, the path from the second field and the size from
\* the fourth.  (Output without a line, or with a line of too few fields for
\* its branch, yields no record at all: the probe raises.)
C4_RecordsFollowFields ==
    got # <<>> =>
        /\ got[1].ok <=>
              /\ given.fields # <<>>
              /\ \A i \in DOMAIN given.fields : LongEnough(given.fields[i])
        /\ got[1].ok =>
              /\ Len(got[1].val) = Len(given.fields)
              /\ \A i \in DOMAIN given.fields :
                    LET f == given.fields[i]
                        d == got[1].val[i]
                    IN  /\ d.name = f[1]
                        /\ IF f[1] \in NvmeNames
                           THEN d.type = "nvme" /\ "path" \notin DOMAIN d
                           ELSE /\ d.type = (IF f[3] = "1" THEN "hdd" ELSE "ssd")
                                /\ d.path = f[2]
                                /\ d.size = f[4]

C4_Witness ==
    /\ got # <<>> /\ got[1].ok /\ Len(given.fields) = 2
    /\ given.fields[1] = <<"nvme0n1", "1:0:0:0", "1", "500G">>
    /\ given.fields[2] = <<"sda", "1:0:0:0", "10", "500G">>
    /\ got[1].val[2].type = "ssd"

WellFormed == \A key \in DOMAIN given.facts : given.facts[key] # None

\* The records the text calls for, the model name given by model.
CpuRecords(model) ==
    [i \in 1..SocketCount[given.facts.sockets[1]] |->
        [cpu_num |-> CpuNumText[i],
         model   |-> model,
         cores   |-> given.facts.cores[1],
         threads |-> given.facts.threads[1]]]

\* C5: for well-formed lscpu text with S sockets, C cores per socket, T
\* threads per core and model name M, get_cpu_info returns S records, each
\* with cores C, threads T and model M, cpu_num running 0..S-1 in order; of a
\* repeated label the last line counts.
C5_CpuRecordsFollowText ==
    got # <<>> /\ WellFormed => got[1] = Return(CpuRecords(given.facts.model[1]))

\* What holds: the same with the model name cut at its first ':'.
CpuRecordsUpToColon ==
    got # <<>> /\ WellFormed =>
        got[1] = Return(CpuRecords(
                    IF given.facts.model[1] = "EPYC 7B12 rev: B1" THEN "EPYC 7B12 rev"
                    ELSE given.facts.model[1]))

\* The record of E[i] with the serial the pairs of P name for it, if any.
Merged(E, P, i) ==
    IF \E k \in DOMAIN P : P[k][1] = E[i].name
    THEN LET k == CHOOSE k \in DOMAIN P : P[k][1] = E[i].name
         IN  [key \in DOMAIN E[i] \cup {"serial"} |->
                 IF key = "serial" THEN P[k][2] ELSE E[i][key]]
    ELSE E[i]

\* C6: the reconciliation of an enumeration E (names unique) with the pairs
\* P the serial probes delivered gives the same records for every arrival
\* order of P and when it is applied again; each record is one entry of E
\* with its serial added; an entry without a pair is returned as it is,
\* serial absent, and nothing raises.
C6_ReconciliationIsStable ==
    got # <<>> =>
        LET E == given.E
            P == given.P
        IN  /\ got[1].ok
            /\ Len(got[1].val) = Len(E)
            /\ \A i \in DOMAIN E : got[1].val[i] = Merged(E, P, i)
            /\ \A i \in DOMAIN E :
                  (\A k \in DOMAIN P : P[k][1] # E[i].name)
                      => Absent(got[1].val[i], "serial")
            /\ \A f \in Permutations(DOMAIN P) :
                  reconcile(E, [k \in DOMAIN P |-> Return(P[f[k]])]) = got[1]
            /\ Len(got) = 2 => got[2] = got[1]

C6_Witness ==
    /\ Len(got) = 2
    /\ Len(given.E) = 2
    /\ Len(given.P) = 1
    /\ given.P[1][1] = given.E[2].name
    /\ given.P[1][2] # None

\* C7: the line printed in a cycle over the snapshot's disks d1..dN is the
\* '|'-join of N "name temperature" pairs in the snapshot's order, whatever
\* order the probes finish in; a disk whose smartctl output has no
\* temperature line contributes its name with an empty temperature.
C7_LineWithEmptyReading ==
    pc = "idle" => printed = Some(CycleLine(""))

\* C7 as amended: ... contributes its name followed by the text None.
C7_LineWithNoneReading ==
    pc = "idle" => printed = Some(CycleLine("None"))

C7_Witness ==
    /\ pc = "idle"
    /\ Len(temp_futures) = 2
    /\ completion = <<2, 1>>
    /\ temp_futures[1].env.sensor = None
    /\ temp_futures[2].env.sensor # None

\* C8: the sampling loop has no terminal state under normal operation.  A
\* cycle prints exactly once, after all its probes are done and before main
\* sleeps; main leaves the loop only when a probe raised; asleep, its next
\* step is a new cycle, which always comes; and a cycle in which no probe
\* raises ends asleep.
C8_LoopAlternates ==
    /\ [](pc = "sampling" => prints = 0)
    /\ [](pc = "idle" => prints = 1 /\ \A i \in DOMAIN temp_futures : Done(temp_futures[i]))
    /\ [](pc \in {"unwinding", "returned"} /\ temp_futures # <<>>
             => \E i \in DOMAIN temp_futures : Raised(temp_futures[i]))
    /\ [][pc = "idle" /\ pc' # pc => pc' = "sampling" /\ prints' = 0]_vars
    /\ [][pc = "sampling" /\ pc' = "idle" => prints' = 1]_vars
    /\ (pc = "idle" ~> pc = "sampling")
    /\ (pc = "sampling" ~>
           (pc = "idle" \/ \E i \in DOMAIN temp_futures : Raised(temp_futures[i])))

C8_Witness ==
    /\ pc = "sampling"
    /\ printed # None
    /\ \A i \in DOMAIN temp_futures : Done(temp_futures[i])

\* C9: once assembled the snapshot is never changed: through every cycle
\* host_info stays what was logged at assembly, and each cycle has one probe
\* per disk of that snapshot, run on that disk.
C9_SnapshotIsFrozen ==
    /\ [](snapshot # None =>
            /\ host_info = snapshot[1]
            /\ temp_futures # <<>> =>
                  /\ Len(temp_futures) = Len(snapshot[1]["disks"])
                  /\ \A i \in DOMAIN temp_futures :
                        Succeeded(temp_futures[i]) =>
                            startswith(temp_futures[i].result.val,
                                       snapshot[1]["disks"][i].name \o " "))
    /\ [][snapshot # None => snapshot' = snapshot /\ host_info' = host_info]_vars

C9_Witness ==
    /\ pc = "sampling"
    /\ printed # None
    /\ Len(temp_futures) = 2
    /\ Succeeded(temp_futures[2])

\* C10: under every interleaving, serial probes exist only once the
\* enumeration has produced the disks; the reconciliation has run only when
\* every serial probe is done, and assigns each record's serial at most
\* once; host_info receives the facets only when all four probes are done
\* and the reconciliation, if any, is over.
C10_WavesAreJoined ==
    /\ serial_futures # <<>> =>
          /\ disk_pc \in {"serials", "returned"}
          /\ Len(serial_futures) = Len(disk_info)
    /\ disk_pc = "lsblk" => \A i \in DOMAIN serial_futures : serial_futures[i].state = "pending"
    /\ disk_pc = "returned" /\ serial_futures # <<>> =>
          \A i \in DOMAIN serial_futures : Done(serial_futures[i])
    /\ Done(futures["disks"]) => disk_pc = "returned"
    /\ \A i \in DOMAIN serial_writes : serial_writes[i] <= 1
    /\ (\E i \in DOMAIN serial_writes : serial_writes[i] > 0) =>
          \A i \in DOMAIN serial_futures : Done(serial_futures[i])
    /\ pc \notin {"connect", "wave"} /\ errors # Some("ConnectionError") =>
          \A f \in Facets : Done(futures[f])
    /\ DOMAIN host_info \cap {"disks", "cpus", "memory", "model", "serial"} # {} =>
          \A f \in Facets : Done(futures[f])

\* The states the loop is started from on its own are states of the whole
\* run: Spec reaches each of them.
LoopInitReached == LoopInit

C10_Witness ==
    /\ "disks" \in DOMAIN host_info
    /\ Len(serial_writes) = 2
    /\ \A i \in DOMAIN serial_writes : serial_writes[i] = 1
====
